---- MODULE Spec2Model ----
(***************************************************************************)
(* A model of cluster_PAM (src/Algorytm_PAM.py): Partitioning Around       *)
(* Medoids.  One call of the function is a run of the state machine below: *)
(* the precondition checks, the distance matrix, the random draw of the    *)
(* initial medoids, the swap loop (one step per candidate evaluated, one   *)
(* step per medoid replaced) and the final assignment.                     *)
(*                                                                         *)
(* Point indices are 0-based as in the code; TLA+ sequences are 1-based,   *)
(* so row/column i of a matrix is element i + 1 of the sequence.           *)
(* Distances are kept in fixed point: a distance is the integer part of    *)
(* Scale times the Euclidean norm.                                         *)
(***************************************************************************)
EXTENDS Integers, Sequences, FiniteSets

VARIABLES
    X,                              \* the argument X: [isArray, ndim, rows]
    k,                              \* the argument k: [isInt, val]
    pc,                             \* position in cluster_PAM
    error,                          \* message of the ValueError raised, or "none"
    cost_matrix,                    \* n x n matrix of distances (<< >> before it is built)
    medoids,                        \* list of medoid indices
    initial_medoids,                \* what np.random.choice returned in this call
    best_cost,
    medoids_before_this_iteration,
    mi,                             \* position of the outer for-loop in the snapshot
    best_medoid,
    candidate,                      \* the inner for-loop's variable
    passes,                         \* iterations of the while-loop begun
    clusters,                       \* returned
    final_cost,                     \* returned
    previous                        \* what an earlier call on the same X, k returned

vars == << X, k, pc, error, cost_matrix, medoids, initial_medoids, best_cost,
           medoids_before_this_iteration, mi, best_medoid, candidate, passes,
           clusters, final_cost, previous >>

-----------------------------------------------------------------------------
(* Bounds of the model *)

MaxN == 3
MaxCoord == 3
Scale == 10

\* The value standing for a NaN entry of X.
NaN == -1

-----------------------------------------------------------------------------
(* Sequences, sets, arithmetic *)

Range(s) == { s[i] : i \in 1..Len(s) }

RECURSIVE SumSeq(_)
SumSeq(s) == IF s = << >> THEN 0 ELSE Head(s) + SumSeq(Tail(s))

Abs(a) == IF a < 0 THEN -a ELSE a

RECURSIVE Fact(_)
Fact(m) == IF m <= 0 THEN 1 ELSE m * Fact(m - 1)

\* The number of j-subsets of an m-set.
Binom(m, j) == IF j < 0 \/ j > m THEN 0 ELSE Fact(m) \div (Fact(j) * Fact(m - j))

RECURSIVE SqrtBetween(_, _, _)
SqrtBetween(v, lo, hi) ==
    IF lo >= hi THEN lo
    ELSE LET mid == (lo + hi + 1) \div 2
         IN  IF mid * mid <= v THEN SqrtBetween(v, mid, hi)
                               ELSE SqrtBetween(v, lo, mid - 1)

\* All sequences of length len over S.
RECURSIVE SeqsOfLen(_, _)
SeqsOfLen(S, len) ==
    IF len = 0 THEN { << >> }
    ELSE { Append(s, x) : s \in SeqsOfLen(S, len - 1), x \in S }

\* All lists of j pairwise-distinct elements of S, in every order.
Arrangements(S, j) == { s \in SeqsOfLen(S, j) : Cardinality(Range(s)) = j }

-----------------------------------------------------------------------------
(* Inputs *)

\* X = [[0,0],[0,1],[10,10],[10,11]]
Scenario == << <<0, 0>>, <<0, 1>>, <<10, 10>>, <<10, 11>> >>

\* Five points on a line at doubling distances: some initial medoids need a
\* third pass here.
Doubling == << <<0>>, <<1>>, <<2>>, <<4>>, <<8>> >>

\* n x 1 matrices, n <= MaxN, entries in 0..MaxCoord or NaN; and the two above.
Datasets ==
    UNION { SeqsOfLen({ <<v>> : v \in (0..MaxCoord) \cup {NaN} }, len) : len \in 0..MaxN }
        \cup { Scenario, Doubling }

\* The most rows of a dataset.
LargestN == CHOOSE n \in 0..(MaxN + 5) :
                /\ \E d \in Datasets : Len(d) = n
                /\ \A d \in Datasets : Len(d) <= n

NRows(x) == Len(x.rows)

-----------------------------------------------------------------------------
(* The precondition checks, lines 24-33 *)

ContainsNaN(rows) == \E i \in 1..Len(rows) : \E j \in 1..Len(rows[i]) : rows[i][j] = NaN

\* The checks without the one for NaN entries.
ValidateWithoutNaNCheck(x, kk) ==
    IF ~x.isArray THEN "Input data X must be a NumPy array."
    ELSE IF x.ndim # 2 THEN "Input data X must be a 2D NumPy array (n_samples, n_features)."
    ELSE IF ~kk.isInt \/ kk.val <= 0 THEN "Number of clusters k must be a positive integer."
    ELSE IF kk.val > NRows(x) THEN "Number of clusters k cannot exceed the number of data points."
    ELSE "none"

\* The message of the first check that fails, "none" when all pass.
Validate(x, kk) ==
    IF ~x.isArray THEN "Input data X must be a NumPy array."
    ELSE IF x.ndim # 2 THEN "Input data X must be a 2D NumPy array (n_samples, n_features)."
    ELSE IF ~kk.isInt \/ kk.val <= 0 THEN "Number of clusters k must be a positive integer."
    ELSE IF kk.val > NRows(x) THEN "Number of clusters k cannot exceed the number of data points."
    ELSE IF ContainsNaN(x.rows) THEN "Input data X contains NaN values."
    ELSE "none"

-----------------------------------------------------------------------------
(* The distance matrix, line 36 *)

RECURSIVE SumSq(_, _)
SumSq(p, q) ==
    IF p = << >> THEN 0
    ELSE (Head(p) - Head(q)) * (Head(p) - Head(q)) + SumSq(Tail(p), Tail(q))

RECURSIVE SumAbs(_, _)
SumAbs(p, q) ==
    IF p = << >> THEN 0 ELSE Abs(Head(p) - Head(q)) + SumAbs(Tail(p), Tail(q))

\* np.linalg.norm(p - q) in fixed point; the norm is at most the sum of the
\* absolute differences, which bounds the search.
Norm(p, q) == SqrtBetween(Scale * Scale * SumSq(p, q), 0, Scale * SumAbs(p, q))

CostMatrix(rows) ==
    [ i \in 1..Len(rows) |-> [ j \in 1..Len(rows) |-> Norm(rows[j], rows[i]) ] ]

-----------------------------------------------------------------------------
(* Cost of a medoid list: np.sum(np.min(cost_matrix[:, medoids], axis=1)) *)

\* cost_matrix[:, M]
SubMatrix(D, M) == [ i \in 1..Len(D) |-> [ j \in 1..Len(M) |-> D[i][M[j] + 1] ] ]

\* np.max in place of np.min.
RowMax(row) == CHOOSE v \in Range(row) : \A w \in Range(row) : v >= w

\* np.min of one row
RowMin(row) == CHOOSE v \in Range(row) : \A w \in Range(row) : v <= w

\* np.argmax in place of np.argmin.
ArgMax(row) ==
    (CHOOSE j \in 1..Len(row) :
        /\ \A h \in 1..Len(row) : row[j] >= row[h]
        /\ \A h \in 1..(j - 1) : row[h] < row[j]) - 1

\* An argmin that returns the last minimum.
ArgMinLast(row) ==
    (CHOOSE j \in 1..Len(row) :
        /\ \A h \in 1..Len(row) : row[j] <= row[h]
        /\ \A h \in (j + 1)..Len(row) : row[h] > row[j]) - 1

\* np.argmin of one row: the 0-based position of the first minimum
ArgMin(row) ==
    (CHOOSE j \in 1..Len(row) :
        /\ \A h \in 1..Len(row) : row[j] <= row[h]
        /\ \A h \in 1..(j - 1) : row[h] > row[j]) - 1

CostOf(D, M) ==
    LET sub == SubMatrix(D, M)
    IN  SumSeq([ i \in 1..Len(sub) |-> RowMin(sub[i]) ])

\* list.remove(x): the list without the first occurrence of x
RECURSIVE Remove(_, _)
Remove(s, x) ==
    IF s = << >> THEN << >>
    ELSE IF Head(s) = x THEN Tail(s)
    ELSE << Head(s) >> \o Remove(Tail(s), x)

\* test_medoids without test_medoids.remove(medoid).
TestMedoidsKeepingMedoid(M, medoid, c) == Append(M, c)

\* lines 58-60: test_medoids
TestMedoids(M, medoid, c) == Append(Remove(M, medoid), c)

\* <= in place of <.
ImprovesOrTies(test_cost, best) == test_cost <= best

\* line 67
Improves(test_cost, best) == test_cost < best

\* medoids == set(medoids_before_this_iteration): a list never equals a set.
ConvergedNever(M, before) == FALSE

\* A comparison of the lengths only.
ConvergedByLength(M, before) == Len(M) = Len(before)

\* line 76
Converged(M, before) == Range(M) = Range(before)

\* The while-loop is cut off after this many iterations, above the number of
\* k-subsets of any point set of the model.
MaxPasses == Binom(LargestN, LargestN \div 2) + 3

-----------------------------------------------------------------------------
(* State after construction: a call about to be made *)

NoResult == [ initial |-> << >>, medoids |-> << >>, clusters |-> << >>, final_cost |-> -1 ]

Init ==
    /\ X \in [ isArray : BOOLEAN, ndim : {1, 2, 3}, rows : Datasets ]
    /\ k \in [ isInt : BOOLEAN, val : (-1)..(MaxN + 1) ]
    /\ pc = "call"
    /\ error = "none"
    /\ cost_matrix = << >>
    /\ medoids = << >>
    /\ initial_medoids = << >>
    /\ best_cost = 0
    /\ medoids_before_this_iteration = << >>
    /\ mi = 0
    /\ best_medoid = 0
    /\ candidate = 0
    /\ passes = 0
    /\ clusters = << >>
    /\ final_cost = -1
    /\ previous = NoResult

\* lines 24-33, 86-88: a check fails, the error is printed and raised
Reject ==
    /\ pc = "call"
    /\ Validate(X, k) # "none"
    /\ error' = Validate(X, k)
    /\ pc' = "error"
    /\ UNCHANGED << X, k, cost_matrix, medoids, initial_medoids, best_cost,
                    medoids_before_this_iteration, mi, best_medoid, candidate,
                    passes, clusters, final_cost, previous >>

\* lines 24-36: the checks pass and the distance matrix is computed
BuildMatrix ==
    /\ pc = "call"
    /\ Validate(X, k) = "none"
    /\ cost_matrix' = CostMatrix(X.rows)
    /\ pc' = "built"
    /\ UNCHANGED << X, k, error, medoids, initial_medoids, best_cost,
                    medoids_before_this_iteration, mi, best_medoid, candidate,
                    passes, clusters, final_cost, previous >>

\* A draw with replacement (replace=True).
InitialMedoidsWithReplacement(n_samples, kk) == SeqsOfLen(0..(n_samples - 1), kk)

\* line 40: np.random.choice(n_samples, k, replace=False)
InitialMedoids(n_samples, kk) == Arrangements(0..(n_samples - 1), kk)

\* best_cost surviving from an earlier call instead of being computed afresh.
InitialCostStale(D, M) ==
    IF previous.final_cost >= 0 THEN previous.final_cost ELSE CostOf(D, M)

\* lines 43-44
InitialCost(D, M) == CostOf(D, M)

\* lines 39-44
DrawMedoids ==
    /\ pc = "built"
    /\ \E drawn \in InitialMedoids(NRows(X), k.val) :
          /\ medoids' = drawn
          /\ initial_medoids' = drawn
          /\ best_cost' = InitialCost(cost_matrix, drawn)
    /\ pc' = "while"
    /\ UNCHANGED << X, k, error, cost_matrix, medoids_before_this_iteration, mi,
                    best_medoid, candidate, passes, clusters, final_cost, previous >>

\* lines 46-50: an iteration of the while-loop begins
BeginPass ==
    /\ pc = "while"
    /\ passes < MaxPasses
    /\ medoids_before_this_iteration' = medoids
    /\ mi' = 1
    /\ passes' = passes + 1
    /\ pc' = "for"
    /\ UNCHANGED << X, k, error, cost_matrix, medoids, initial_medoids, best_cost,
                    best_medoid, candidate, clusters, final_cost, previous >>

\* lines 50-55: the outer for-loop takes the next medoid of the snapshot
NextMedoid ==
    /\ pc = "for"
    /\ mi <= Len(medoids_before_this_iteration)
    /\ best_medoid' = medoids_before_this_iteration[mi]
    /\ candidate' = 0
    /\ pc' = "scan"
    /\ UNCHANGED << X, k, error, cost_matrix, medoids, initial_medoids, best_cost,
                    medoids_before_this_iteration, mi, passes, clusters, final_cost,
                    previous >>

\* lines 55-69: one iteration of the inner for-loop
EvalCandidate ==
    /\ pc = "scan"
    /\ candidate < NRows(X)
    /\ LET medoid == medoids_before_this_iteration[mi]
           test_cost == CostOf(cost_matrix, TestMedoids(medoids, medoid, candidate))
       IN  IF candidate \notin Range(medoids) /\ Improves(test_cost, best_cost)
           THEN /\ best_cost' = test_cost
                /\ best_medoid' = candidate
           ELSE UNCHANGED << best_cost, best_medoid >>
    /\ candidate' = candidate + 1
    /\ UNCHANGED << X, k, pc, error, cost_matrix, medoids, initial_medoids,
                    medoids_before_this_iteration, mi, passes, clusters, final_cost,
                    previous >>

\* lines 72-73: the medoid is replaced by the best replacement found
Replace ==
    /\ pc = "scan"
    /\ candidate = NRows(X)
    /\ medoids' = Append(Remove(medoids, medoids_before_this_iteration[mi]), best_medoid)
    /\ mi' = mi + 1
    /\ pc' = "for"
    /\ UNCHANGED << X, k, error, cost_matrix, initial_medoids, best_cost,
                    medoids_before_this_iteration, best_medoid, candidate, passes,
                    clusters, final_cost, previous >>

\* lines 76-77: after the outer for-loop, break or go round again
EndPass ==
    /\ pc = "for"
    /\ mi > Len(medoids_before_this_iteration)
    /\ pc' = IF Converged(medoids, medoids_before_this_iteration) THEN "final" ELSE "while"
    /\ UNCHANGED << X, k, error, cost_matrix, medoids, initial_medoids, best_cost,
                    medoids_before_this_iteration, mi, best_medoid, candidate, passes,
                    clusters, final_cost, previous >>

\* lines 80-84
Finalize ==
    /\ pc = "final"
    /\ LET final_matrix == SubMatrix(cost_matrix, medoids)
       IN  /\ final_cost' = SumSeq([ i \in 1..Len(final_matrix) |-> RowMin(final_matrix[i]) ])
           /\ clusters' = [ i \in 1..Len(final_matrix) |-> ArgMin(final_matrix[i]) ]
    /\ pc' = "done"
    /\ UNCHANGED << X, k, error, cost_matrix, medoids, initial_medoids, best_cost,
                    medoids_before_this_iteration, mi, best_medoid, candidate, passes,
                    previous >>

\* The caller calls cluster_PAM again with the same X and k.
Rerun ==
    /\ pc = "done"
    /\ previous = NoResult
    /\ previous' = [ initial |-> initial_medoids, medoids |-> medoids,
                     clusters |-> clusters, final_cost |-> final_cost ]
    /\ pc' = "call"
    /\ cost_matrix' = << >>
    /\ medoids' = << >>
    /\ initial_medoids' = << >>
    /\ best_cost' = 0
    /\ medoids_before_this_iteration' = << >>
    /\ mi' = 0
    /\ best_medoid' = 0
    /\ candidate' = 0
    /\ passes' = 0
    /\ clusters' = << >>
    /\ final_cost' = -1
    /\ UNCHANGED << X, k, error >>

Next ==
    \/ Reject
    \/ BuildMatrix
    \/ DrawMedoids
    \/ BeginPass
    \/ NextMedoid
    \/ EvalCandidate
    \/ Replace
    \/ EndPass
    \/ Finalize

Spec == Init /\ [][Next]_vars

\* The function runs on one thread with nothing to wait for: it keeps stepping.
FairSpec == Spec /\ WF_vars(Next)

NextTwoRuns == Next \/ Rerun

\* Two successive calls on the same X and k.
SpecTwoRuns == Init /\ [][NextTwoRuns]_vars

-----------------------------------------------------------------------------
(* Properties *)

n_samples == NRows(X)

\* The positions at which the medoid list exists.
Drawn == pc \in {"while", "for", "scan", "final", "done"}

\* The cost of medoid list M with medoid m swapped for point c.
SwapCost(M, m, c) == CostOf(cost_matrix, Append(Remove(M, m), c))

\* C1: once the initial medoids are drawn, after every replacement and at
\* return, the medoid list holds exactly k pairwise-distinct indices in [0, n).
MedoidSetValid ==
    Drawn =>
        /\ Len(medoids) = k.val
        /\ Cardinality(Range(medoids)) = k.val
        /\ Range(medoids) \subseteq 0..(n_samples - 1)

\* C1 witness: a call has returned medoids other than those drawn, so that
\* replacements were applied.
MedoidSetValidWitness ==
    /\ pc = "done"
    /\ Range(medoids) # Range(initial_medoids)
    /\ Len(medoids) = k.val
    /\ k.val >= 2

\* What the claim calls an invalid input, stated on the arguments themselves.
InvalidInput ==
    \/ ~X.isArray
    \/ X.ndim # 2
    \/ ~k.isInt
    \/ k.val <= 0
    \/ k.val > n_samples
    \/ \E i \in 1..n_samples : NaN \in Range(X.rows[i])

\* C5: on an invalid input the call can only end in the error outcome: no
\* distance matrix is built, no medoids are drawn, no pass runs and nothing
\* is returned; and an error outcome arises from an invalid input only.
PreconditionRejection ==
    /\ InvalidInput =>
          /\ pc \in {"call", "error"}
          /\ pc = "error" => error # "none"
          /\ cost_matrix = << >>
          /\ medoids = << >>
          /\ initial_medoids = << >>
          /\ passes = 0
          /\ clusters = << >>
          /\ final_cost = -1
    /\ pc = "error" => InvalidInput

\* C5 witness: a call on a 2-D array with a NaN entry and a valid k has been
\* rejected.
PreconditionRejectionWitness ==
    /\ pc = "error"
    /\ X.isArray /\ X.ndim = 2 /\ k.isInt /\ k.val >= 1 /\ k.val <= n_samples
    /\ \E i \in 1..n_samples : NaN \in Range(X.rows[i])

\* C3: a replacement never raises the cost of the medoid list, and best_cost
\* never rises while the loop runs.
CostMonotone ==
    [][ /\ (pc = "scan" /\ pc' = "for") =>
              CostOf(cost_matrix, medoids') <= CostOf(cost_matrix, medoids)
        /\ (pc \in {"while", "for", "scan"}) => best_cost' <= best_cost ]_vars

\* C3 witness: a replacement has just been applied that lowered the cost.
CostMonotoneWitness ==
    /\ pc = "for"
    /\ mi > 1
    /\ medoids # medoids_before_this_iteration
    /\ CostOf(cost_matrix, medoids) < CostOf(cost_matrix, medoids_before_this_iteration)
    /\ best_cost = CostOf(cost_matrix, medoids)

\* C10: when the loop has broken, no swap of a medoid for a non-medoid lowers
\* the cost, best_cost is the cost of the medoid list, and the returned cost
\* is best_cost.
LocalOptimum ==
    pc \in {"final", "done"} =>
        /\ \A m \in Range(medoids) : \A c \in (0..(n_samples - 1)) \ Range(medoids) :
              SwapCost(medoids, m, c) >= CostOf(cost_matrix, medoids)
        /\ best_cost = CostOf(cost_matrix, medoids)
        /\ pc = "done" => final_cost = best_cost

\* C10 witness: a call that needed a third pass has returned, with
\* non-medoids left to swap in.
LocalOptimumWitness ==
    /\ pc = "done"
    /\ passes >= 3
    /\ k.val < n_samples
    /\ final_cost > 0

\* The largest number of passes the claim allows: the k-subsets of the n
\* points, plus one.
PassesBound == Binom(n_samples, k.val) + 1

\* C2: the while-loop begins at most PassesBound passes, and once the
\* medoids are drawn it reaches the break.
Convergence ==
    /\ [](Drawn => passes <= PassesBound)
    /\ (pc = "while" /\ passes = 0) ~> (pc = "final")

\* C2 witness: the break has been reached by a run that needed a third pass.
ConvergenceWitness ==
    /\ pc = "final"
    /\ passes >= 3
    /\ passes <= PassesBound
    /\ Range(medoids) # Range(initial_medoids)

\* The least distance from point i to a medoid of list M.
NearestDistance(i, M) == RowMin(SubMatrix(cost_matrix, M)[i + 1])

\* C4 as claimed: the returned assignment has length n and each entry is a
\* returned medoid index, a medoid at minimum distance from the point.
AssignmentIsMedoidIndex ==
    pc = "done" =>
        /\ Len(clusters) = n_samples
        /\ \A i \in 0..(n_samples - 1) :
              /\ clusters[i + 1] \in Range(medoids)
              /\ cost_matrix[i + 1][clusters[i + 1] + 1] = NearestDistance(i, medoids)

\* C4 amended: the returned assignment has length n and each entry is a
\* position in [0, k) of the returned medoid list, that of a medoid at
\* minimum distance from the point.
AssignmentIsMedoidPosition ==
    pc = "done" =>
        /\ Len(clusters) = n_samples
        /\ \A i \in 0..(n_samples - 1) :
              /\ clusters[i + 1] \in 0..(k.val - 1)
              /\ cost_matrix[i + 1][medoids[clusters[i + 1] + 1] + 1]
                    = NearestDistance(i, medoids)

\* C4 witness: a call has returned an assignment holding a value that is no
\* returned medoid index.
AssignmentIsMedoidPositionWitness ==
    /\ pc = "done"
    /\ k.val >= 2
    /\ \E i \in 1..n_samples : clusters[i] \notin Range(medoids)
    /\ \E i, j \in 1..n_samples : clusters[i] # clusters[j]

\* The medoids of list M at minimum distance from point i.
TiedMedoids(i, M) ==
    { m \in Range(M) : cost_matrix[i + 1][m + 1] = NearestDistance(i, M) }

SetMin(S) == CHOOSE v \in S : \A w \in S : v <= w

\* C8 as claimed: every point is assigned to the medoid of lowest index among
\* those at minimum distance from it.
FinalTieLowestMedoidIndex ==
    pc = "done" =>
        \A i \in 0..(n_samples - 1) :
            medoids[clusters[i + 1] + 1] = SetMin(TiedMedoids(i, medoids))

\* C8 amended: every point is assigned to the medoid that comes first in the
\* returned medoid list among those at minimum distance from it.
FinalTieFirstColumn ==
    pc = "done" =>
        \A i \in 0..(n_samples - 1) :
            clusters[i + 1] + 1 =
                SetMin({ j \in 1..Len(medoids) : medoids[j] \in TiedMedoids(i, medoids) })

\* C8 witness: a returned point is tied between two medoids and is assigned
\* to the one first in the list, which has the higher index.
FinalTieFirstColumnWitness ==
    /\ pc = "done"
    /\ \E i \in 0..(n_samples - 1) :
          /\ Cardinality(TiedMedoids(i, medoids)) >= 2
          /\ medoids[clusters[i + 1] + 1] \in TiedMedoids(i, medoids)
          /\ medoids[clusters[i + 1] + 1] # SetMin(TiedMedoids(i, medoids))

\* C6: on X = [[0,0],[0,1],[10,10],[10,11]] with k = 2 every call returns one
\* medoid of {0,1} and one of {2,3}, cost 2, points 0,1 in one cluster and
\* points 2,3 in the other.
ScenarioResult ==
    (pc = "done" /\ X.rows = Scenario /\ k.val = 2) =>
        /\ \E a \in {0, 1}, b \in {2, 3} : Range(medoids) = {a, b}
        /\ Len(medoids) = 2
        /\ final_cost = 2 * Scale
        /\ clusters[1] = clusters[2]
        /\ clusters[3] = clusters[4]
        /\ clusters[1] # clusters[3]

\* C6 witness: the scenario has returned from initial medoids drawn from the
\* same pair.
ScenarioResultWitness ==
    /\ pc = "done"
    /\ X.rows = Scenario
    /\ k.val = 2
    /\ Range(initial_medoids) = {2, 3}
    /\ final_cost = 2 * Scale

\* The candidates the scan for the current medoid has evaluated so far.
Evaluated == { c \in 0..(candidate - 1) : c \notin Range(medoids) }

CurrentMedoid == medoids_before_this_iteration[mi]

\* C9: throughout the scan for medoid m, best_medoid is m while no evaluated
\* candidate was strictly below the running best; otherwise it is the
\* lowest-index candidate attaining the minimum trial cost so far, which is
\* best_cost.
ScanTieBreak ==
    pc = "scan" =>
        /\ \A c \in Evaluated : SwapCost(medoids, CurrentMedoid, c) >= best_cost
        /\ best_medoid # CurrentMedoid =>
              /\ best_medoid \in Evaluated
              /\ SwapCost(medoids, CurrentMedoid, best_medoid) = best_cost
              /\ \A c \in Evaluated :
                    SwapCost(medoids, CurrentMedoid, c) = best_cost => c >= best_medoid
        /\ best_medoid = CurrentMedoid =>
              best_cost = CostOf(cost_matrix, medoids)

\* C9 witness: a scan has ended having adopted a candidate that a later
\* candidate of equal trial cost did not displace.
ScanTieBreakWitness ==
    /\ pc = "scan"
    /\ candidate = n_samples
    /\ best_medoid # CurrentMedoid
    /\ \E c \in Evaluated :
          /\ c > best_medoid
          /\ SwapCost(medoids, CurrentMedoid, c) = best_cost

\* The medoid each point is assigned to by a result.
AssignedMedoids(r) == [ i \in 1..Len(r.clusters) |-> r.medoids[r.clusters[i] + 1] ]

ThisResult ==
    [ initial |-> initial_medoids, medoids |-> medoids, clusters |-> clusters,
      final_cost |-> final_cost ]

====
